---- MODULE Spec2Model ----
(***************************************************************************)
(* State-machine model of WeatherDataAnalyzer (src/app.py).                *)
(*                                                                         *)
(* Numbers.  The program computes in float64.  The model computes in       *)
(* fixed point: a series holds whole units (deg C, %, mm, km/h, hPa),      *)
(* derived statistics carry an explicit scale (x1000 unless said           *)
(* otherwise), and a float that the program may turn into not-a-number is  *)
(* a record [nan, v].  Every random draw of the generator is an input of   *)
(* the GenerateWeatherData action.                                         *)
(***************************************************************************)
EXTENDS Integers, Sequences, FiniteSets, TLC

VARIABLES
    pc,             \* position of the caller: new, idle, a report step, done, error
    exc,            \* the exception that ended the run ("" while none)
    days,           \* self.days
    dates,          \* self.dates: sequence of <<year, month, day>>
    temperature,    \* self.temperature
    humidity,       \* self.humidity
    precipitation,  \* self.precipitation
    wind_speed,     \* self.wind_speed
    pressure,       \* self.pressure
    out,            \* what the most recent method call computed and reported
    report_calls    \* the methods generate_report has invoked so far, in order

vars == <<pc, exc, days, dates, temperature, humidity, precipitation,
          wind_speed, pressure, out, report_calls>>

series == <<days, dates, temperature, humidity, precipitation, wind_speed, pressure>>

(***************************************************************************)
(* Bounds of the model.                                                    *)
(***************************************************************************)
MaxDays == 4          \* longest series under Spec (every sequence of DayDraws)
MaxSpellDays == 8     \* longest series under SpecSpells (rain draws only)
MaxCalendarDays == 1095  \* longest series under SpecCalendar (calm draws)
MaxMaskLen == 8       \* longest boolean_array under SpecRuns
MaxMinLength == 4     \* largest min_length under SpecRuns
MaxTrendDays == 35    \* longest series under SpecTrend (calm draws)

(***************************************************************************)
(* Generic helpers on sequences.                                           *)
(***************************************************************************)
Min2(a, b) == IF a <= b THEN a ELSE b
Abs(x) == IF x < 0 THEN -x ELSE x

\* an array with its elements computed once (the identity on sequences)
np_array(s) == s \o <<>>

\* faulty variant: the upper bound is not applied
clipLowerOnly(x, lo, hi) == IF x < lo THEN lo ELSE x

\* np.clip(x, lo, hi)
clip(x, lo, hi) == IF x < lo THEN lo ELSE IF x > hi THEN hi ELSE x

\* None: the value of an array field before generate_weather_data
None == <<>>

(***************************************************************************)
(* Calendar: datetime + timedelta, date.timetuple().tm_yday, date.month.   *)
(* A datetime at midnight is <<year, month, day>>; the addition goes       *)
(* through the proleptic Gregorian ordinal, as the datetime module does.   *)
(***************************************************************************)
IsLeap(y) == (y % 4 = 0) /\ ((y % 100 # 0) \/ (y % 400 = 0))

DaysBeforeYear(y) ==
    (y - 1) * 365 + ((y - 1) \div 4) - ((y - 1) \div 100) + ((y - 1) \div 400)

DaysBeforeMonthTable == <<0, 31, 59, 90, 120, 151, 181, 212, 243, 273, 304, 334>>

DaysBeforeMonth(y, m) ==
    DaysBeforeMonthTable[m] + (IF m > 2 /\ IsLeap(y) THEN 1 ELSE 0)

\* date.toordinal()
ToOrdinal(d) == DaysBeforeYear(d[1]) + DaysBeforeMonth(d[1], d[2]) + d[3]

\* date.fromordinal(n)
FromOrdinal(ord) ==
    LET n0   == ord - 1
        n400 == n0 \div 146097
        r400 == n0 % 146097
        n100 == r400 \div 36524
        r100 == r400 % 36524
        n4   == r100 \div 1461
        r4   == r100 % 1461
        n1   == r4 \div 365
        n    == r4 % 365
        year == n400 * 400 + 1 + n100 * 100 + n4 * 4 + n1
    IN  IF n1 = 4 \/ n100 = 4 THEN <<year - 1, 12, 31>>
        ELSE
          LET leap  == (n1 = 3) /\ ((n4 # 24) \/ (n100 = 3))
              lp(m) == IF m > 2 /\ leap THEN 1 ELSE 0
              mEst  == (n + 50) \div 32
              pEst  == DaysBeforeMonthTable[mEst] + lp(mEst)
              month == IF pEst > n THEN mEst - 1 ELSE mEst
              prec  == DaysBeforeMonthTable[month] + lp(month)
          IN  <<year, month, n - prec + 1>>

\* start_date = datetime(2021, 1, 1)
start_date == <<2021, 1, 1>>

\* start_date + timedelta(days=i)
AddDays(d, i) == FromOrdinal(ToOrdinal(d) + i)

\* faulty variant: range(1, n + 1)
MakeDatesFromOne(n) == np_array([k \in 1..n |-> AddDays(start_date, k)])

\* [start_date + timedelta(days=i) for i in range(n)]
MakeDates(n) == np_array([k \in 1..n |-> AddDays(start_date, k - 1)])

\* date.timetuple().tm_yday
tm_yday(d) == ToOrdinal(d) - ToOrdinal(<<d[1], 1, 1>>) + 1

\* date.month
MonthOf(d) == d[2]

(***************************************************************************)
(* sin, in thousandths, of an angle in whole degrees (Bhaskara's rational  *)
(* approximation on [0, 180], extended by symmetry).                       *)
(***************************************************************************)
SinHalf(d) == (4000 * d * (180 - d)) \div (40500 - d * (180 - d))

Sin1000(deg) ==
    LET a == deg % 360
    IN  IF a <= 180 THEN SinHalf(a) ELSE -SinHalf(a - 180)

\* the angle 2*pi*day_of_year/365.25, in whole degrees
YearAngle(doy) == (360 * 100 * doy) \div 36525

\* seasonal_temp = 20 + 15 * sin(2*pi*doy/365.25 - pi/2)
seasonal_temp(doy) == 20 + (15 * Sin1000(YearAngle(doy) - 90)) \div 1000

\* seasonal_pressure = 1013 + 10 * sin(2*pi*doy/365.25)
seasonal_pressure(doy) == 1013 + (10 * Sin1000(YearAngle(doy))) \div 1000

(***************************************************************************)
(* generate_weather_data.  `noise` is a sequence, one record per day, of   *)
(* the day's six random draws:                                             *)
(*   t  np.random.normal(0, 5)      daily_variation before the coupling    *)
(*   h  np.random.normal(0, 10)     humidity_noise                         *)
(*   u  np.random.random()          in thousandths, 0..999                 *)
(*   e  np.random.exponential(5)    rain amount if it rains                *)
(*   w  np.random.normal(0, 3)      wind noise                             *)
(*   p  np.random.normal(0, 8)      pressure_variation                     *)
(***************************************************************************)
RECURSIVE CoupleRange(_, _, _)
\* for i in range(len(acc), hi): daily_variation[i] += 0.3 * daily_variation[i-1]
\* (acc holds the days already coupled; the next day is Len(acc) + 1)
CoupleRange(noise, hi, acc) ==
    IF Len(acc) >= hi THEN acc
    ELSE LET i == Len(acc) + 1
         IN  CoupleRange(noise, hi,
                         Append(acc, noise[i].t + (3 * acc[i - 1]) \div 10))

RECURSIVE CoupleFrom(_, _)
\* the same loop, evaluated in stretches of 32 days to keep the evaluation
\* shallow; the result does not depend on the stretch length
CoupleFrom(noise, acc) ==
    IF Len(acc) >= Len(noise) THEN acc
    ELSE CoupleFrom(noise,
                    CoupleRange(noise, Min2(Len(acc) + 32, Len(noise)), acc))

\* daily_variation after the coupling loop
daily_variation(noise) ==
    IF Len(noise) = 0 THEN <<>> ELSE CoupleFrom(noise, <<noise[1].t>>)

GenTemperature(dts, noise) ==
    LET dv == daily_variation(noise)
    IN  np_array([i \in 1..Len(noise) |->
                     seasonal_temp(tm_yday(dts[i])) + dv[i]])

\* humidity = np.clip(70 - 0.5*(temperature - 20) + humidity_noise, 10, 100)
GenHumidity(temp, noise) ==
    np_array([i \in 1..Len(noise) |->
        clip(70 - ((temp[i] - 20) \div 2) + noise[i].h, 10, 100)])

\* rain_events = random() < clip((humidity - 30)/70, 0, 1) * 0.3
rain_event(hum, u) == 7 * u < 3 * clip(hum - 30, 0, 70)

\* precipitation = np.where(rain_events, exponential(5), 0)
GenPrecipitation(hum, noise) ==
    np_array([i \in 1..Len(noise) |->
        IF rain_event(hum[i], noise[i].u) THEN noise[i].e ELSE 0])

\* wind_speed = np.clip(8 + 0.3*precipitation + normal(0, 3), 0, 50)
GenWindSpeed(prec, noise) ==
    np_array([i \in 1..Len(noise) |->
        clip(8 + ((3 * prec[i]) \div 10) + noise[i].w, 0, 50)])

\* pressure = seasonal_pressure + pressure_variation - 5*(precipitation > 0)
GenPressure(dts, prec, noise) ==
    np_array([i \in 1..Len(noise) |->
        seasonal_pressure(tm_yday(dts[i])) + noise[i].p
          - (IF prec[i] > 0 THEN 5 ELSE 0)])

(***************************************************************************)
(* The draws the model enumerates.                                         *)
(***************************************************************************)
Calm     == [t |-> 0,  h |-> 0,   u |-> 999, e |-> 5,  w |-> 0,   p |-> 0]
Storm    == [t |-> 5,  h |-> 90,  u |-> 0,   e |-> 12, w |-> 50,  p |-> 8]
Parched  == [t |-> -5, h |-> -90, u |-> 0,   e |-> 2,  w |-> -20, p |-> -8]
Drizzle  == [t |-> 3,  h |-> 0,   u |-> 0,   e |-> 2,  w |-> 1,   p |-> 0]
Shower   == [t |-> 0,  h |-> 0,   u |-> 0,   e |-> 5,  w |-> 0,   p |-> 0]

DayDraws  == {Calm, Storm, Parched, Drizzle}
RainDraws == {Calm, Drizzle, Shower}
CalmDraws == {Calm}

\* all sequences of n day-draws from D
Noises(D, n) == [1..n -> D]

(***************************************************************************)
(* Floats that may be not-a-number.                                        *)
(***************************************************************************)
Num(x) == [nan |-> FALSE, v |-> x]
NaN == [nan |-> TRUE, v |-> 0]

(***************************************************************************)
(* numpy reductions on a whole-unit series.                                *)
(***************************************************************************)
RECURSIVE SumFrom(_, _)
SumFrom(s, i) == IF i > Len(s) THEN 0 ELSE s[i] + SumFrom(s, i + 1)

\* np.sum
Sum(s) == SumFrom(s, 1)

\* np.sum(x * y)
SumProd(s, t) == Sum(np_array([i \in 1..Len(s) |-> s[i] * t[i]]))

\* np.sum(mask): the number of True entries of a boolean array
CountTrue(mask) == Cardinality({i \in 1..Len(mask) : mask[i]})

RECURSIVE InsertSorted(_, _)
InsertSorted(sorted, x) ==
    IF sorted = <<>> THEN <<x>>
    ELSE IF x <= Head(sorted) THEN <<x>> \o sorted
    ELSE <<Head(sorted)>> \o InsertSorted(Tail(sorted), x)

RECURSIVE SortFrom(_, _, _)
SortFrom(s, i, acc) ==
    IF i > Len(s) THEN acc ELSE SortFrom(s, i + 1, InsertSorted(acc, s[i]))

\* np.sort (ascending)
np_sort(s) == SortFrom(s, 1, <<>>)

\* np.min, np.max, np.ptp of a non-empty series
MinSeq(s) == np_sort(s)[1]
MaxSeq(s) == np_sort(s)[Len(s)]
ptp(s) == MaxSeq(s) - MinSeq(s)

RECURSIVE SqrtSearch(_, _, _)
SqrtSearch(x, lo, hi) ==
    IF lo >= hi THEN lo
    ELSE LET mid == (lo + hi + 1) \div 2
         IN  IF mid * mid <= x THEN SqrtSearch(x, mid, hi)
             ELSE SqrtSearch(x, lo, mid - 1)

\* floor(sqrt(x)) for 0 <= x < 2^31
Isqrt(x) == SqrtSearch(x, 0, Min2(x, 46340))

\* np.mean, x1000; the mean of an empty array is nan (a warning, no error)
mean1000(s) == IF Len(s) = 0 THEN NaN ELSE Num((1000 * Sum(s)) \div Len(s))

\* np.median, x1000, of a non-empty series
median1000(s) ==
    LET srt == np_sort(s)
        n   == Len(s)
    IN  IF n % 2 = 1 THEN 1000 * srt[(n + 1) \div 2]
        ELSE 500 * (srt[n \div 2] + srt[n \div 2 + 1])

\* n^2 times the population variance: n*sum(x^2) - sum(x)^2 (exact)
VarN2(s) == Len(s) * SumProd(s, s) - Sum(s) * Sum(s)

\* n^2 times the covariance: n*sum(x*y) - sum(x)*sum(y) (exact)
CovN2(s, t) == Len(s) * SumProd(s, t) - Sum(s) * Sum(t)

\* np.std (population), x1000
std1000(s) == (10 * Isqrt(10000 * VarN2(s))) \div Len(s)

\* np.percentile(a, q) with linear interpolation, x100, of a non-empty series:
\* position q/100*(n-1) between the order statistics lo and lo+1
percentile100(a, q) ==
    LET srt == np_sort(a)
        pos == q * (Len(a) - 1)
        lo  == pos \div 100
        rem == pos % 100
        hi  == Min2(lo + 1, Len(a) - 1)
    IN  100 * srt[lo + 1] + rem * (srt[hi + 1] - srt[lo + 1])

\* x > threshold, the threshold x100
Above(x, thr100) == 100 * x > thr100
Below(x, thr100) == 100 * x < thr100

\* (x - np.mean(x)) / np.std(x), elementwise, x1000; 0/0 is nan
zscore1000(s) ==
    LET n == Len(s)
        v == VarN2(s)
        S == Sum(s)
        sd == Isqrt(10000 * v)
    IN  np_array([i \in 1..n |->
            IF v = 0 THEN NaN ELSE Num((100000 * (n * s[i] - S)) \div sd)])

\* np.abs on a float that may be nan
AbsN(x) == IF x.nan THEN NaN ELSE Num(Abs(x.v))

\* float addition: nan is absorbing
AddN(x, y) == IF x.nan \/ y.nan THEN NaN ELSE Num(x.v + y.v)

RECURSIVE ArgmaxFrom(_, _, _)
ArgmaxFrom(s, i, best) ==
    IF i > Len(s) THEN best
    ELSE IF s[best].nan THEN best
    ELSE IF s[i].nan \/ s[i].v > s[best].v THEN ArgmaxFrom(s, i + 1, i)
    ELSE ArgmaxFrom(s, i + 1, best)

\* np.argmax (0-based): the first nan if there is one, else the first maximum
argmax(s) == ArgmaxFrom(s, 2, 1) - 1

\* one entry of np.corrcoef, kept exact: the coefficient is
\* cov / sqrt(var_x * var_y) (the common factor n^2 cancels); a zero variance
\* (a constant variable, or a single day) makes the division 0/0 = nan
corrcoef(s, t) ==
    LET vs == VarN2(s)
        vt == VarN2(t)
    IN  IF vs = 0 \/ vt = 0
        THEN [nan |-> TRUE, cov |-> 0, var_x |-> 0, var_y |-> 0]
        ELSE [nan |-> FALSE, cov |-> CovN2(s, t), var_x |-> vs, var_y |-> vt]

\* abs(corr) > 0.3, decided exactly: cov^2 > 0.09*var_x*var_y; False on nan
IsStrong(s, t) ==
    LET vs == VarN2(s)
        vt == VarN2(t)
        c  == CovN2(s, t)
        P  == vs * vt
    IN  /\ vs # 0
        /\ vt # 0
        /\ c * c > 9 * (P \div 100) + (9 * (P % 100)) \div 100

(***************************************************************************)
(* find_consecutive_events: padded first-difference edge detection.        *)
(***************************************************************************)
\* np.concatenate(([False], boolean_array, [False])).astype(int)
Padded(boolean_array) ==
    <<0>> \o [i \in 1..Len(boolean_array) |->
                IF boolean_array[i] THEN 1 ELSE 0] \o <<0>>

\* np.diff
Diff(s) == np_array([i \in 1..(Len(s) - 1) |-> s[i + 1] - s[i]])

RECURSIVE WhereFrom(_, _, _, _)
WhereFrom(s, val, i, acc) ==
    IF i > Len(s) THEN acc
    ELSE WhereFrom(s, val, i + 1, IF s[i] = val THEN Append(acc, i - 1) ELSE acc)

\* np.where(s == val)[0]: the 0-based indices, ascending
Where(s, val) == WhereFrom(s, val, 1, <<>>)

\* lengths = ends - starts
RunLengths(boolean_array) ==
    LET changes == Diff(Padded(boolean_array))
        starts  == Where(changes, 1)
        ends    == Where(changes, -1)
    IN  np_array([k \in 1..Len(starts) |-> ends[k] - starts[k]])

\* faulty variant: lengths > min_length
find_consecutive_events_strict(boolean_array, min_length) ==
    LET lengths == RunLengths(boolean_array)
    IN  CountTrue([k \in 1..Len(lengths) |-> lengths[k] > min_length])

\* return np.sum(lengths >= min_length)
find_consecutive_events(boolean_array, min_length) ==
    LET lengths == RunLengths(boolean_array)
    IN  CountTrue([k \in 1..Len(lengths) |-> lengths[k] >= min_length])

(***************************************************************************)
(* moving_averages: np.convolve(a, v, mode='valid').                       *)
(***************************************************************************)
\* np.ones(w)
Ones(w) == np_array([i \in 1..w |-> 1])

\* np.convolve(a, v, mode='valid'): the arguments are swapped when v is the
\* longer one; the result has max(M, N) - min(M, N) + 1 entries
ConvolveValid(a, v) ==
    LET long  == IF Len(v) > Len(a) THEN v ELSE a
        short == IF Len(v) > Len(a) THEN a ELSE v
        m     == Len(short)
    IN  np_array([k \in 1..(Len(long) - m + 1) |->
            Sum(np_array([j \in 1..m |-> long[k + j - 1] * short[m - j + 1]]))])

\* np.convolve(temperature, np.ones(w)/w, mode='valid'), x1000
moving_average(temp, w) ==
    LET c == ConvolveValid(temp, Ones(w))
    IN  np_array([k \in 1..Len(c) |-> (1000 * c[k]) \div w])

window_7 == 7
window_30 == 30

(***************************************************************************)
(* precipitation_patterns: the sequential dry-spell loop.                  *)
(***************************************************************************)
RECURSIVE DrySpellLoop(_, _, _, _)
\* for day in no_rain: ...   (i: next index, current_spell, dry_spell_lengths)
DrySpellLoop(no_rain, i, current_spell, lengths) ==
    IF i > Len(no_rain)
    THEN \* if current_spell > 0: dry_spell_lengths.append(current_spell)
         IF current_spell > 0 THEN Append(lengths, current_spell) ELSE lengths
    ELSE IF no_rain[i]
         THEN DrySpellLoop(no_rain, i + 1, current_spell + 1, lengths)
         ELSE DrySpellLoop(no_rain, i + 1, 0,
                           IF current_spell > 0
                           THEN Append(lengths, current_spell) ELSE lengths)

RECURSIVE DrySpellLoopNoFlush(_, _, _, _)
\* faulty variant: the spell still open at the end of the series is dropped
DrySpellLoopNoFlush(no_rain, i, current_spell, lengths) ==
    IF i > Len(no_rain) THEN lengths
    ELSE IF no_rain[i]
         THEN DrySpellLoopNoFlush(no_rain, i + 1, current_spell + 1, lengths)
         ELSE DrySpellLoopNoFlush(no_rain, i + 1, 0,
                                  IF current_spell > 0
                                  THEN Append(lengths, current_spell) ELSE lengths)

dry_spell_lengths_no_flush(prec) ==
    DrySpellLoopNoFlush(np_array([i \in 1..Len(prec) |-> prec[i] = 0]), 1, 0, <<>>)

dry_spell_lengths(prec) ==
    DrySpellLoop(np_array([i \in 1..Len(prec) |-> prec[i] = 0]), 1, 0, <<>>)

\* faulty variant: the report is not guarded
DrySpellGuardMissing(lengths) == Len(lengths) >= 0

\* if len(dry_spell_lengths) > 0:
DrySpellGuard(lengths) == Len(lengths) > 0

\* self.precipitation[self.precipitation > 0]
RainyOnly(prec) == SelectSeq(prec, LAMBDA x : x > 0)

(***************************************************************************)
(* Actions.                                                                *)
(***************************************************************************)
NoOutput == [op |-> "none"]

\* WeatherDataAnalyzer(days=n): __init__
Constructed(n) ==
    /\ pc = "new"
    /\ exc = ""
    /\ days = n
    /\ dates = None
    /\ temperature = None
    /\ humidity = None
    /\ precipitation = None
    /\ wind_speed = None
    /\ pressure = None
    /\ out = NoOutput
    /\ report_calls = <<>>

\* Draws: the day-draws the random source may return
GenerateWeatherData(Draws) ==
    /\ pc = "new"
    /\ \E noise \in Noises(Draws, days) :
         LET dts  == MakeDates(days)
             temp == GenTemperature(dts, noise)
             hum  == GenHumidity(temp, noise)
             prec == GenPrecipitation(hum, noise)
         IN  /\ dates' = dts
             /\ temperature' = temp
             /\ humidity' = hum
             /\ precipitation' = prec
             /\ wind_speed' = GenWindSpeed(prec, noise)
             /\ pressure' = GenPressure(dts, prec, noise)
    /\ pc' = "idle"
    /\ out' = [op |-> "generate_weather_data"]
    /\ UNCHANGED <<exc, days, report_calls>>

(***************************************************************************)
(* A method call.  A method runs when the caller is idle (a direct call)   *)
(* or when generate_report has reached it (`at`); it reports `result`,     *)
(* and an uncaught exception `error` ends the run.  No analyzer assigns a  *)
(* field of self.                                                          *)
(***************************************************************************)
Call(name, nxt, result, error) ==
    /\ pc \in {"idle", name}
    /\ out' = result
    /\ pc' = IF error # "" THEN "error" ELSE IF pc = "idle" THEN "idle" ELSE nxt
    /\ exc' = error
    /\ report_calls' = IF pc = "idle" THEN report_calls
                       ELSE Append(report_calls, name)
    /\ UNCHANGED series

\* generate_report, up to its first call
GenerateReport ==
    /\ pc = "idle"
    /\ pc' = "basic_statistics"
    /\ report_calls' = <<"generate_report">>
    /\ out' = [op |-> "generate_report"]
    /\ UNCHANGED <<exc, series>>

\* mean, median, std, min, max, range of one variable
Describe(data) ==
    [mean |-> mean1000(data).v, median |-> median1000(data),
     std |-> std1000(data), min |-> MinSeq(data), max |-> MaxSeq(data),
     range |-> ptp(data)]

\* faulty variant: the median sorts self.temperature in place
BasicStatisticsSortsInPlace ==
    /\ pc \in {"idle", "basic_statistics"}
    /\ temperature' = np_sort(temperature)
    /\ out' = [op |-> "basic_statistics"]
    /\ pc' = IF pc = "idle" THEN "idle" ELSE "seasonal_analysis"
    /\ report_calls' = IF pc = "idle" THEN report_calls
                       ELSE Append(report_calls, "basic_statistics")
    /\ UNCHANGED <<exc, days, dates, humidity, precipitation, wind_speed, pressure>>

BasicStatistics ==
    Call("basic_statistics", "seasonal_analysis",
         [op |-> "basic_statistics",
          temperature |-> Describe(temperature),
          humidity |-> Describe(humidity),
          precipitation |-> Describe(precipitation),
          wind_speed |-> Describe(wind_speed),
          pressure |-> Describe(pressure)],
         "")

RECURSIVE MaskSelectFrom(_, _, _, _)
MaskSelectFrom(s, mask, i, acc) ==
    IF i > Len(s) THEN acc
    ELSE MaskSelectFrom(s, mask, i + 1, IF mask[i] THEN Append(acc, s[i]) ELSE acc)

\* s[mask]: numpy boolean indexing
MaskSelect(s, mask) == MaskSelectFrom(s, mask, 1, <<>>)

seasons == [Winter |-> {12, 1, 2}, Spring |-> {3, 4, 5},
            Summer |-> {6, 7, 8}, Fall |-> {9, 10, 11}]

SeasonalAnalysis ==
    LET months == [i \in 1..Len(dates) |-> MonthOf(dates[i])]
    IN  Call("seasonal_analysis", "correlation_analysis",
             [op |-> "seasonal_analysis",
              avg_temp |-> [sn \in DOMAIN seasons |->
                  mean1000(MaskSelect(temperature,
                      [i \in 1..Len(months) |-> months[i] \in seasons[sn]]))],
              month_precip |-> [m \in 1..12 |->
                  Sum(MaskSelect(precipitation,
                      [i \in 1..Len(months) |-> months[i] = m]))]],
             "")

\* the columns of weather_data, in the order of `variables`
Columns == <<temperature, humidity, precipitation, wind_speed, pressure>>

CorrelationAnalysis ==
    Call("correlation_analysis", "extreme_weather_analysis",
         [op |-> "correlation_analysis",
          corr_matrix |-> [i \in 1..5 |-> [j \in 1..5 |->
                              corrcoef(Columns[i], Columns[j])]],
          strong |-> {ij \in (1..5) \X (1..5) :
                         ij[1] < ij[2] /\ IsStrong(Columns[ij[1]], Columns[ij[2]])}],
         "")

\* np.percentile of an empty array: nan (with a warning) in older numpy
\* releases, IndexError in newer ones
EmptyPercentileOutcomes == {"nan", "IndexError"}

ExtremeWeatherAnalysis ==
    \E outcome \in EmptyPercentileOutcomes :
      LET temp_hot  == percentile100(temperature, 95)
          temp_cold == percentile100(temperature, 5)
          rainy     == RainyOnly(precipitation)
          raises    == Len(rainy) = 0 /\ outcome = "IndexError"
          heavy_rain == IF Len(rainy) = 0 THEN NaN
                        ELSE Num(percentile100(rainy, 90))
          high_wind == percentile100(wind_speed, 95)
          hot_day_mask == np_array([i \in 1..Len(temperature) |->
                              Above(temperature[i], temp_hot)])
          temp_normalized == [i \in 1..Len(temperature) |->
                                 AbsN(zscore1000(temperature)[i])]
          wind_normalized == zscore1000(wind_speed)
          precip_normalized == zscore1000(precipitation)
          extreme_score == [i \in 1..Len(temperature) |->
              AddN(AddN(temp_normalized[i], wind_normalized[i]),
                   precip_normalized[i])]
      IN  IF raises
          THEN Call("extreme_weather_analysis", "moving_averages",
                    [op |-> "extreme_weather_analysis", completed |-> FALSE,
                     rainy_sample |-> Len(rainy)],
                    "IndexError")
          ELSE Call("extreme_weather_analysis", "moving_averages",
                    [op |-> "extreme_weather_analysis", completed |-> TRUE,
                     rainy_sample |-> Len(rainy),
                     temp_hot |-> temp_hot, temp_cold |-> temp_cold,
                     heavy_rain |-> heavy_rain, high_wind |-> high_wind,
                     hot_days |-> CountTrue(hot_day_mask),
                     cold_days |-> CountTrue([i \in 1..days |->
                                     Below(temperature[i], temp_cold)]),
                     heavy_rain_days |-> IF heavy_rain.nan THEN 0
                         ELSE CountTrue([i \in 1..days |->
                                  Above(precipitation[i], heavy_rain.v)]),
                     high_wind_days |-> CountTrue([i \in 1..days |->
                                     Above(wind_speed[i], high_wind)]),
                     heat_waves |-> find_consecutive_events(hot_day_mask, 3),
                     extreme_score |-> extreme_score,
                     most_extreme_day |-> argmax(extreme_score)],
                    "")

\* a direct call of find_consecutive_events; it reads no field of self
FindConsecutiveEvents(boolean_array, min_length) ==
    /\ pc \in {"new", "idle"}
    /\ out' = [op |-> "find_consecutive_events",
               boolean_array |-> boolean_array, min_length |-> min_length,
               lengths |-> RunLengths(boolean_array),
               result |-> find_consecutive_events(boolean_array, min_length)]
    /\ UNCHANGED <<pc, exc, report_calls, series>>

\* np.polyfit on a single point scales the design matrix by a zero column
\* norm and hands not-a-number to the least-squares solver: nan coefficients
\* or LinAlgError, depending on the LAPACK build
DegeneratePolyfitOutcomes == {"nan", "LinAlgError"}

MovingAverages ==
    \E outcome \in DegeneratePolyfitOutcomes :
      LET temp_7day  == moving_average(temperature, window_7)
          temp_30day == moving_average(temperature, window_30)
          raw_range  == ptp(temperature)
          days_array == [i \in 1..Len(temperature) |-> i - 1]
          degenerate == Len(temperature) = 1
          raises     == degenerate /\ outcome = "LinAlgError"
          slope_num  == CovN2(days_array, temperature)
          shown == [op |-> "moving_averages",
                    temp_7day |-> temp_7day, temp_30day |-> temp_30day,
                    range_raw |-> raw_range,
                    range_7day |-> ptp(temp_7day),
                    range_30day |-> ptp(temp_30day),
                    smoothing |-> IF raw_range = 0 THEN NaN
                        ELSE Num((1000 * raw_range - ptp(temp_30day))
                                   \div raw_range)]
      IN  IF raises
          THEN Call("moving_averages", "precipitation_patterns",
                    [completed |-> FALSE] @@ shown, "LinAlgError")
          ELSE Call("moving_averages", "precipitation_patterns",
                    [completed |-> TRUE,
                     slope |-> IF degenerate THEN NaN ELSE Num(slope_num),
                     slope_scale |-> VarN2(days_array),
                     trend_direction |-> IF ~degenerate /\ slope_num > 0
                                         THEN "warming" ELSE "cooling"] @@ shown,
                    "")

PrecipitationPatterns ==
    LET rainy   == RainyOnly(precipitation)
        lengths == dry_spell_lengths(precipitation)
        guarded == DrySpellGuard(lengths)
        \* np.max and np.min of an empty array raise ValueError
        raises  == guarded /\ Len(lengths) = 0
    IN  Call("precipitation_patterns", "key_insights",
             [op |-> "precipitation_patterns",
              rainy_days |-> Len(rainy),
              rainy_pct |-> (1000 * Len(rainy)) \div days,
              total_precipitation |-> Sum(precipitation),
              rainy_sample |-> Len(rainy),
              avg_rainy_day |-> mean1000(rainy),
              dry_spell_lengths |-> lengths,
              dry_report |-> guarded,
              dry_mean |-> IF guarded THEN mean1000(lengths) ELSE NaN,
              dry_max |-> IF guarded /\ ~raises THEN MaxSeq(lengths) ELSE 0,
              dry_min |-> IF guarded /\ ~raises THEN MinSeq(lengths) ELSE 0],
             IF raises THEN "ValueError" ELSE "")

\* generate_report after its six calls: the four key insights
KeyInsights ==
    /\ pc = "key_insights"
    /\ LET hot_threshold == percentile100(temperature, 95)
           wet_days == CountTrue([i \in 1..Len(precipitation) |->
                                     precipitation[i] > 0])
       IN  out' = [op |-> "key_insights",
                   temp_range |-> ptp(temperature),
                   temp_mean |-> mean1000(temperature).v,
                   wet_days |-> wet_days,
                   wet_pct |-> (1000 * wet_days) \div days,
                   temp_humid_corr |-> corrcoef(temperature, humidity),
                   hot_threshold |-> hot_threshold,
                   hot_days |-> CountTrue([i \in 1..Len(temperature) |->
                                   Above(temperature[i], hot_threshold)])]
    /\ pc' = "done"
    /\ report_calls' = Append(report_calls, "key_insights")
    /\ UNCHANGED <<exc, series>>

(***************************************************************************)
(* Specifications.                                                         *)
(***************************************************************************)
\* the masks a caller builds from the series
SeriesMasks ==
    {[i \in 1..Len(temperature) |->
          Above(temperature[i], percentile100(temperature, 95))],
     [i \in 1..Len(precipitation) |-> precipitation[i] = 0]}

Init == \E n \in 1..MaxDays : Constructed(n)

Next ==
    \/ GenerateWeatherData(DayDraws)
    \/ GenerateReport
    \/ BasicStatistics
    \/ SeasonalAnalysis
    \/ CorrelationAnalysis
    \/ ExtremeWeatherAnalysis
    \/ MovingAverages
    \/ PrecipitationPatterns
    \/ KeyInsights
    \/ /\ pc = "idle"
       /\ \E mask \in SeriesMasks : \E m \in {1, 3} :
              FindConsecutiveEvents(mask, m)

Spec == Init /\ [][Next]_vars

\* all boolean arrays of length at most n
BoolSeqs(n) == UNION {[1..k -> BOOLEAN] : k \in 0..n}

\* WeatherDataAnalyzer(): days=1095
DefaultDays == 1095

InitRuns == Constructed(DefaultDays)
\* one call per behaviour, from every argument pair
NextRuns ==
    /\ out.op = "none"
    /\ \E mask \in BoolSeqs(MaxMaskLen) : \E m \in 1..MaxMinLength :
           FindConsecutiveEvents(mask, m)
SpecRuns == InitRuns /\ [][NextRuns]_vars

InitSpells == \E n \in 1..MaxSpellDays : Constructed(n)
NextSpells ==
    \/ GenerateWeatherData(RainDraws)
    \/ PrecipitationPatterns
SpecSpells == InitSpells /\ [][NextSpells]_vars

InitCalendar == \E n \in 1..MaxCalendarDays : Constructed(n)
NextCalendar == GenerateWeatherData(CalmDraws)
SpecCalendar == InitCalendar /\ [][NextCalendar]_vars
InitTrend == \E n \in 1..MaxTrendDays : Constructed(n)
NextTrend ==
    \/ GenerateWeatherData(CalmDraws)
    \/ MovingAverages
SpecTrend == InitTrend /\ [][NextTrend]_vars

(***************************************************************************)
(* Properties.                                                             *)
(***************************************************************************)
Populated == pc # "new"

HasRainyDay == \E i \in 1..Len(precipitation) : precipitation[i] > 0

\* C1: once generate_weather_data has run, the five series and dates all
\* have length days, every humidity is in [10, 100], every precipitation is
\* >= 0 and every wind speed is in [0, 50], whatever the draws were.
C1_SeriesInvariants ==
    Populated =>
      /\ Len(dates) = days
      /\ Len(temperature) = days
      /\ Len(humidity) = days
      /\ Len(precipitation) = days
      /\ Len(wind_speed) = days
      /\ Len(pressure) = days
      /\ \A i \in 1..days :
            /\ 10 <= humidity[i] /\ humidity[i] <= 100
            /\ precipitation[i] >= 0
            /\ 0 <= wind_speed[i] /\ wind_speed[i] <= 50

\* a generated series in which both humidity bounds and both wind bounds
\* are the result of clipping, and it rained
C1_Witness ==
    /\ out.op = "generate_weather_data"
    /\ \E i, j \in 1..days :
          /\ humidity[i] = 10 /\ humidity[j] = 100
          /\ wind_speed[i] = 0 /\ wind_speed[j] = 50
          /\ precipitation[j] > 0

\* the maximal contiguous runs of True in b, as <<first, last>> (1-based)
MaximalRuns(b) ==
    {r \in (1..Len(b)) \X (1..Len(b)) :
        /\ r[1] <= r[2]
        /\ \A k \in r[1]..r[2] : b[k]
        /\ (r[1] = 1 \/ ~b[r[1] - 1])
        /\ (r[2] = Len(b) \/ ~b[r[2] + 1])}

ExampleMask == <<TRUE, TRUE, FALSE, TRUE, TRUE, TRUE, FALSE, TRUE>>

\* C2: find_consecutive_events returns the number of maximal runs of True
\* whose length is at least min_length, for every boolean array (empty,
\* all-true, all-false, runs touching either end) and every min_length >= 1;
\* on [T,T,F,T,T,T,F,T] the run lengths are [2,3,1] and min_length 3 gives 1.
C2_CountsMaximalRuns ==
    out.op = "find_consecutive_events" =>
      /\ out.result =
           Cardinality({r \in MaximalRuns(out.boolean_array) :
                           r[2] - r[1] + 1 >= out.min_length})
      /\ out.boolean_array = ExampleMask =>
           /\ out.lengths = <<2, 3, 1>>
           /\ out.min_length = 3 => out.result = 1

C2_Witness ==
    /\ out.op = "find_consecutive_events"
    /\ out.boolean_array = ExampleMask
    /\ out.min_length = 3
    /\ out.result = 1

ExamplePrecipitation == <<0, 0, 5, 0, 0, 0, 2, 0>>

\* C3: the dry-spell lengths of the sequential loop in precipitation_patterns
\* equal, in order, the run lengths (ends - starts) that the edge detection
\* of find_consecutive_events computes on the mask precipitation == 0;
\* [0,0,5,0,0,0,2,0] gives [2,3,1].
C3_LoopMatchesEdgeDetection ==
    out.op = "precipitation_patterns" =>
      /\ out.dry_spell_lengths =
           RunLengths(np_array([i \in 1..Len(precipitation) |->
                                   precipitation[i] = 0]))
      /\ precipitation = ExamplePrecipitation =>
           out.dry_spell_lengths = <<2, 3, 1>>

C3_Witness ==
    /\ out.op = "precipitation_patterns"
    /\ precipitation = ExamplePrecipitation
    /\ out.dry_spell_lengths = <<2, 3, 1>>

\* C4: for each window w in {7, 30} the moving average has days - w + 1
\* entries when w <= days and is empty when w > days.
C4_MovingAverageLength ==
    out.op = "moving_averages" =>
      /\ Len(out.temp_7day) =
           IF window_7 <= days THEN days - window_7 + 1 ELSE 0
      /\ Len(out.temp_30day) =
           IF window_30 <= days THEN days - window_30 + 1 ELSE 0

\* what np.convolve(mode='valid') returns: |days - w| + 1 entries
C4_ConvolveLength ==
    out.op = "moving_averages" =>
      /\ Len(out.temp_7day) = Abs(days - window_7) + 1
      /\ Len(out.temp_30day) = Abs(days - window_30) + 1

\* C5: without a rainy day, extreme_weather_analysis and
\* precipitation_patterns neither raise nor reduce over the empty set of
\* rainy days (no nan percentile, no nan mean), and the run does not abort.
C5_RainlessGuarded ==
    (Populated /\ ~HasRainyDay) =>
      /\ pc # "error"
      /\ out.op = "extreme_weather_analysis" =>
           (out.completed /\ ~out.heavy_rain.nan)
      /\ out.op = "precipitation_patterns" => ~out.avg_rainy_day.nan

\* C6: a constant variable never puts not-a-number into the composite
\* score, the correlation matrix or the temperature-humidity insight.
C6_ZeroVarianceDetected ==
    /\ (out.op = "extreme_weather_analysis" /\ out.completed) =>
          \A i \in 1..days : ~out.extreme_score[i].nan
    /\ out.op = "correlation_analysis" =>
          \A i, j \in 1..5 : ~out.corr_matrix[i][j].nan
    /\ out.op = "key_insights" => ~out.temp_humid_corr.nan

NoHotDay ==
    \A i \in 1..Len(temperature) :
        ~Above(temperature[i], percentile100(temperature, 95))

C8_AnalyzersLeaveSeriesUnchanged == [][Populated => UNCHANGED series]_vars

\* a report that has run all six analyzers and the insights
C8_Witness ==
    /\ pc = "done"
    /\ out.op = "key_insights"
    /\ days > 1

CalendarDaysInMonth(y, m) ==
    IF m = 2 THEN (IF IsLeap(y) THEN 29 ELSE 28)
    ELSE IF m \in {4, 6, 9, 11} THEN 30 ELSE 31

\* the calendar day after d
NextDay(d) ==
    IF d[3] < CalendarDaysInMonth(d[1], d[2]) THEN <<d[1], d[2], d[3] + 1>>
    ELSE IF d[2] < 12 THEN <<d[1], d[2] + 1, 1>>
    ELSE <<d[1] + 1, 1, 1>>

\* C9: generate_weather_data yields exactly days dates, the first 2021-01-01,
\* each the calendar day after its predecessor, the last days - 1 days after
\* the first; for 1095 days the last date is 2023-12-31.
C9_DatesConsecutive ==
    Populated =>
      /\ Len(dates) = days
      /\ dates[1] = <<2021, 1, 1>>
      /\ \A i \in 1..(days - 1) : dates[i + 1] = NextDay(dates[i])
      /\ ToOrdinal(dates[days]) - ToOrdinal(dates[1]) = days - 1
      /\ days = 1095 => dates[days] = <<2023, 12, 31>>

C9_Witness ==
    /\ out.op = "generate_weather_data"
    /\ days = 1095
    /\ dates[1095] = <<2023, 12, 31>>

ReportOrder ==
    <<"generate_report", "basic_statistics", "seasonal_analysis",
      "correlation_analysis", "extreme_weather_analysis", "moving_averages",
      "precipitation_patterns", "key_insights">>

\* C10: a generate_report that has ended has invoked each of the six
\* analyzers exactly once, in the fixed order, and then the insights.
C10_ReportRunsEveryAnalyzerOnce ==
    (Len(report_calls) > 0 /\ pc \in {"done", "error"}) =>
        report_calls = ReportOrder

\* the order itself: what generate_report has invoked is always a prefix of
\* the fixed order, the insights come only after all six analyzers, and no
\* report step runs on an unpopulated series
C10_ReportOrderIsPrefix ==
    /\ Len(report_calls) <= Len(ReportOrder)
    /\ report_calls = SubSeq(ReportOrder, 1, Len(report_calls))
    /\ Len(report_calls) > 0 => Populated
    /\ pc = "done" => report_calls = ReportOrder
====
